---- MODULE Spec2Model ----
(***************************************************************************)
(* Model of gd_ik::GDIKPlugin (src/src/gd_ik_plugin.cpp): the plugin       *)
(* object's members, initialize, the accessors, getPositionIK and the six  *)
(* searchPositionIK overloads.                                             *)
(*                                                                         *)
(* Doubles are modelled by small integers, poses by one integer (a 1-D     *)
(* position), names by sequences of one-character strings so that the      *)
(* leading-slash stripping of storeValues is an operation on the name.     *)
(***************************************************************************)
EXTENDS Integers, Sequences, FiniteSets, TLC

\* ------------------------------------------------------------------ bounds
\* Number of initialize calls explored on one plugin object.
MaxInits == 2

\* --------------------------------------------------------------- utilities
Range(s) == {s[i] : i \in 1..Len(s)}

RECURSIVE Concat(_, _)
\* std::vector::push_back of every element of t onto s, in order.
Concat(s, t) == IF t = <<>> THEN s ELSE Concat(Append(s, Head(t)), Tail(t))

\* ------------------------------------------------- the robot model (input)
\* A serial chain.  Joint i moves link i; `var` is the joint's index in the
\* full variable vector (0: the joint has no variable).
NullModel == [joints |-> <<>>, links |-> <<>>, groups |-> <<>>]

TheRobotModel ==
  [joints |-> <<
      [name |-> <<"r">>, type |-> "PLANAR",    var |-> 1, lo |-> 0, hi |-> 2],
      [name |-> <<"x">>, type |-> "REVOLUTE",  var |-> 2, lo |-> 0, hi |-> 1],
      [name |-> <<"f">>, type |-> "FIXED",     var |-> 0, lo |-> 0, hi |-> 0],
      [name |-> <<"u">>, type |-> "UNKNOWN",   var |-> 0, lo |-> 0, hi |-> 0],
      [name |-> <<"y">>, type |-> "PRISMATIC", var |-> 3, lo |-> 1, hi |-> 2] >>,
   links |-> << <<"r">>, <<"a">>, <<"m">>, <<"n">>, <<"t">> >>,
   groups |-> <<
      [name |-> "arm", joints |-> <<1, 2, 3, 4, 5>>, tips |-> << <<"t">> >>],
      [name |-> "leg", joints |-> <<1, 2>>,          tips |-> <<>>] >>]

NumVariables(model) ==
  Cardinality({i \in 1..Len(model.joints) : model.joints[i].var > 0})

\* The group pointer: NullGroup is nullptr, any other value names the group.
NullGroup == "nullptr"
\* The value of a pointer member that no constructor has set.
IndeterminateGroup == "indeterminate"

getJointModelGroup(model, group_name) ==
  IF \E i \in 1..Len(model.groups) : model.groups[i].name = group_name
  THEN group_name ELSE NullGroup

GroupOf(model, jmg) ==
  model.groups[CHOOSE i \in 1..Len(model.groups) : model.groups[i].name = jmg]

\* jmg_->getJointModels(): the group's joint models, in group order.
getJointModels(model, jmg) ==
  [k \in 1..Len(GroupOf(model, jmg).joints) |->
      model.joints[GroupOf(model, jmg).joints[k]]]

getEndEffectorTips(model, jmg) == GroupOf(model, jmg).tips

\* ------------------------------------------------------- inputs of the API
Nodes == {"node"}
NullNode == "nullptr"
\* <<center_joints_weight, avoid_joint_limits_weight,
\*   minimal_displacement_weight>>: every weight is negative, zero and
\* positive in some choice.
WeightChoices ==
  {<<0, 0, 0>>, <<1, 0, -1>>, <<0, -1, 2>>, <<-1, 1, 0>>}
\* What ParamListener::get_params() can return.
ParamChoices ==
  {[center_joints_weight |-> w[1], avoid_joint_limits_weight |-> w[2],
    minimal_displacement_weight |-> w[3],
    position_threshold |-> 0, rotation_threshold |-> 0, twist_threshold |-> 0,
    cost_threshold |-> 0] : w \in WeightChoices}
\* A default-constructed Params.
DefaultParams ==
  [center_joints_weight |-> 0, avoid_joint_limits_weight |-> 0,
   minimal_displacement_weight |-> 0,
   position_threshold |-> 0, rotation_threshold |-> 0, twist_threshold |-> 0,
   cost_threshold |-> 0]
GroupNames == {"arm", "leg", "hand"}
BaseFrames == {<<"/", "r">>, <<"a">>}
TipFrameChoices == {<< <<"/", "m">> >>}
Discretizations == {1}

\* ------------------------------------------------------------ storeValues
\* KinematicsBase::removeSlash
removeSlash(name) ==
  IF Len(name) > 0 /\ name[1] = "/" THEN Tail(name) ELSE name

\* KinematicsBase::storeValues, as the comment of initialize documents it.
storeValues(self, robot_model, group_name, base_frame, tip_frames, sd) ==
  [self EXCEPT
     !.robot_model_ = robot_model,
     !.robot_description_ = <<>>,
     !.group_name_ = group_name,
     !.base_frame_ = removeSlash(base_frame),
     !.tip_frames_ = [k \in 1..Len(tip_frames) |-> removeSlash(tip_frames[k])],
     !.redundant_joint_discretization_ = <<sd>>]

\* ------------------------------------------- helpers of gd_ik/robot.hpp
\* Robot::from: per-variable position limits of the model.
EmptyRobot == <<>>
RobotFrom(model) ==
  [v \in 1..NumVariables(model) |->
     LET j == CHOOSE i \in 1..Len(model.joints) : model.joints[i].var = v
     IN [lo |-> model.joints[j].lo, hi |-> model.joints[j].hi]]

LinkIndex(model, name) ==
  CHOOSE i \in 1..Len(model.links) : model.links[i] = name

get_link_indexes(model, tip_frames) ==
  [k \in 1..Len(tip_frames) |-> LinkIndex(model, tip_frames[k])]

RECURSIVE ActiveVars(_, _, _, _)
\* Variable indexes of the group joints from position k on that are neither
\* fixed nor of unknown type, are not the root joint carrying the base
\* frame, and lie on the chain to a tip link.
ActiveVars(model, joints, tips, k) ==
  IF k > Len(joints) THEN <<>>
  ELSE LET j == joints[k]
           jm == model.joints[j]
           keep == /\ jm.type \notin {"FIXED", "UNKNOWN"}
                   /\ jm.var > 0
                   /\ j # 1
                   /\ \E t \in Range(tips) : j <= t
       IN (IF keep THEN <<jm.var>> ELSE <<>>)
            \o ActiveVars(model, joints, tips, k + 1)

get_active_variable_indexes(model, jmg, tip_link_indexes) ==
  ActiveVars(model, GroupOf(model, jmg).joints, tip_link_indexes, 1)

\* A narrower position range gives a larger factor.
MaxSpan == 2
get_minimal_displacement_factors(active, robot) ==
  [k \in 1..Len(active) |->
     MaxSpan + 1 - (robot[active[k]].hi - robot[active[k]].lo)]

\* ------------------------------------------------------------- the plugin
\* A default-constructed GDIKPlugin; jmg_ has no initializer.
FreshPlugin(jmg) ==
  [node_ |-> NullNode,
   parameter_listener_ |-> [node |-> NullNode, ns |-> ""],
   params_ |-> DefaultParams,
   robot_model_ |-> NullModel,
   robot_description_ |-> <<>>,
   group_name_ |-> "",
   base_frame_ |-> <<>>,
   tip_frames_ |-> <<>>,
   redundant_joint_discretization_ |-> <<>>,
   jmg_ |-> jmg,
   joint_names_ |-> <<>>,
   link_names_ |-> <<>>,
   robot_ |-> EmptyRobot,
   tip_link_indexes_ |-> <<>>,
   active_variable_indexes_ |-> <<>>,
   minimal_displacement_factors_ |-> <<>>]

RECURSIVE JointNamesFrom(_, _, _)
\* The names the loop of initialize pushes for joint models k.. of jms.
JointNamesFrom(jms, base_frame_, k) ==
  IF k > Len(jms) THEN <<>>
  ELSE (IF /\ jms[k].name # base_frame_
           /\ jms[k].type # "UNKNOWN"
           /\ jms[k].type # "FIXED"
        THEN <<jms[k].name>> ELSE <<>>)
         \o JointNamesFrom(jms, base_frame_, k + 1)

\* joint_names_ after the loop: the names are pushed onto the member.
PushJointNames(joint_names_, jms, base_frame_) ==
  Concat(joint_names_, JointNamesFrom(jms, base_frame_, 1))

\* initialize up to and including the group lookup.
InitializeHead(self, node, params, robot_model, group_name, base_frame, tip_frames, sd) ==
  LET s1 == [self EXCEPT
               !.node_ = node,
               !.parameter_listener_ = [node |-> node, ns |-> group_name],
               !.params_ = params]
      s2 == storeValues(s1, robot_model, group_name, base_frame, tip_frames, sd)
  IN [s2 EXCEPT !.jmg_ = getJointModelGroup(s2.robot_model_, group_name)]

\* initialize after the group was found.
InitializeTail(s3) ==
  LET model == s3.robot_model_
      names == PushJointNames(s3.joint_names_,
                              getJointModels(model, s3.jmg_), s3.base_frame_)
      jmg_tips == getEndEffectorTips(model, s3.jmg_)
      tips == IF jmg_tips # <<>> THEN jmg_tips ELSE s3.tip_frames_
      robot == RobotFrom(model)
      tli == get_link_indexes(model, tips)
      avi == get_active_variable_indexes(model, s3.jmg_, tli)
  IN [s3 EXCEPT
        !.joint_names_ = names,
        !.tip_frames_ = tips,
        !.link_names_ = tips,
        !.robot_ = robot,
        !.tip_link_indexes_ = tli,
        !.active_variable_indexes_ = avi,
        !.minimal_displacement_factors_ =
            get_minimal_displacement_factors(avi, robot)]

\* The return statements of initialize.
InitializeReturnNoGroup == FALSE
InitializeReturnEnd == FALSE

\* The plugin object and the value returned by GDIKPlugin::initialize.
InitializeResult(self, node, params, robot_model, group_name, base_frame, tip_frames, sd) ==
  LET s3 == InitializeHead(self, node, params, robot_model, group_name,
                           base_frame, tip_frames, sd)
  IN IF s3.jmg_ = NullGroup
     THEN [self |-> s3, ret |-> InitializeReturnNoGroup]
     ELSE [self |-> InitializeTail(s3), ret |-> InitializeReturnEnd]

\* ------------------------------------------- forward kinematics (1-D chain)
\* Position of link i: the sum of the variables of joints 1..i.
RECURSIVE LinkPosition(_, _, _)
LinkPosition(model, state, i) ==
  IF i = 0 THEN 0
  ELSE LinkPosition(model, state, i - 1)
         + (IF model.joints[i].var > 0 THEN state[model.joints[i].var] ELSE 0)

\* RobotState::setToDefaultValues: 0 where the limits allow it, else the
\* middle of the range.
DefaultValues(model) ==
  [v \in 1..NumVariables(model) |->
     LET r == RobotFrom(model)[v]
     IN IF r.lo <= 0 /\ 0 <= r.hi THEN 0 ELSE (r.lo + r.hi) \div 2]

\* ---------------------------------------------- inputs of searchPositionIK
NullState == <<>>
Poses == {1, 2}
PoseLists == {<<2>>, <<1, 2>>}
SeedStates == {<<1, 0, 2>>, <<0>>}
ContextStates == {NullState, <<1, 0, 2>>}
ConsistencyChoices == {<<1, 1, 1>>}
CallerSolutions == {<<9>>}
\* moveit_msgs::msg::MoveItErrorCodes, by name.
CallerErrorCodes == {"UNDEFINED"}
TypedFailures == {"TIMED_OUT", "NO_IK_SOLUTION", "INVALID_ROBOT_STATE",
                  "INVALID_GROUP_NAME", "FAILURE"}

\* ------------------------------ helpers of gd_ik/frame.hpp, goal.hpp, ...
\* Poses given in the base frame, expressed in the model frame.
transform_poses_to_frames(model, state, ik_poses, base_frame) ==
  [k \in 1..Len(ik_poses) |->
     ik_poses[k]
       + (IF \E i \in 1..Len(model.links) : model.links[i] = base_frame
          THEN LinkPosition(model, state, LinkIndex(model, base_frame))
          ELSE 0)]

make_frame_tests(goal_frames, position_threshold, rotation_threshold, twist_threshold) ==
  [k \in 1..Len(goal_frames) |->
     [frame |-> goal_frames[k], position_threshold |-> position_threshold,
      rotation_threshold |-> rotation_threshold,
      twist_threshold |-> twist_threshold]]

get_variables(state) == state

\* The entries of v at the positions idx names, in the order of idx.
select(v, idx) == [k \in 1..Len(idx) |-> v[idx[k]]]

make_center_joints_cost_fn(robot, active, factors) ==
  [kind |-> "center_joints", robot |-> robot, active |-> active,
   factors |-> factors]

make_avoid_joint_limits_cost_fn(robot, active, factors) ==
  [kind |-> "avoid_joint_limits", robot |-> robot, active |-> active,
   factors |-> factors]

make_minimal_displacement_cost_fn(active_initial_guess, factors) ==
  [kind |-> "minimal_displacement", reference |-> active_initial_guess,
   factors |-> factors]

make_ik_cost_fn(pose, cost_function, model, jmg, initial_guess) ==
  [kind |-> "ik_cost", pose |-> pose, jmg |-> jmg,
   initial_guess |-> initial_guess]

make_is_solution_test_fn(frame_tests, goals, cost_threshold) ==
  [frame_tests |-> frame_tests, goals |-> goals,
   cost_threshold |-> cost_threshold]

Abs(n) == IF n < 0 THEN -n ELSE n

RECURSIVE SumTo(_, _)
SumTo(f, n) == IF n = 0 THEN 0 ELSE f[n] + SumTo(f, n - 1)

\* Cost of one goal's cost function at the active vector a.
CostOf(fn, a) ==
  IF fn.kind = "center_joints"
  THEN SumTo([k \in 1..Len(a) |->
                LET r == fn.robot[fn.active[k]]
                IN (2 * a[k] - (r.lo + r.hi)) * (2 * a[k] - (r.lo + r.hi))],
             Len(a))
  ELSE IF fn.kind = "avoid_joint_limits"
  THEN SumTo([k \in 1..Len(a) |->
                LET r == fn.robot[fn.active[k]]
                IN IF a[k] = r.lo \/ a[k] = r.hi THEN fn.factors[k] ELSE 0],
             Len(a))
  ELSE IF fn.kind = "minimal_displacement"
  THEN SumTo([k \in 1..Len(a) |->
                fn.factors[k] * (a[k] - fn.reference[k])
                              * (a[k] - fn.reference[k])],
             Len(a))
  ELSE 0

\* The Solution Test at the full joint vector `full`: every frame test
\* passes for its tip link and the weighted cost is within the threshold.
SolutionTestAccepts(test, model, tip_link_indexes, active, full) ==
  /\ Len(test.frame_tests) = Len(tip_link_indexes)
  /\ \A k \in 1..Len(test.frame_tests) :
       Abs(test.frame_tests[k].frame
             - LinkPosition(model, full, tip_link_indexes[k]))
         <= test.frame_tests[k].position_threshold
  /\ SumTo([g \in 1..Len(test.goals) |->
              test.goals[g].weight * CostOf(test.goals[g].fn,
                                            select(full, active))],
           Len(test.goals)) <= test.cost_threshold

\* ------------------------------------------------------- searchPositionIK
\* The locals of one call before its first statement.
NoLocals ==
  [built |-> {}, context |-> <<>>, goal_frames |-> <<>>, frame_tests |-> <<>>,
   initial_guess |-> <<>>, active_initial_guess |-> <<>>, goals |-> <<>>,
   solution_test |-> <<>>]

\* The statement dereferences robot_model_ when no state is supplied.
CanSearch(s, context_state) ==
  context_state # NullState \/ s.robot_model_ # NullModel

\* "If we didn't receive a robot state we have to make one"; a supplied
\* state is a state of TheRobotModel.
StepContext(s, in, loc) ==
  [loc EXCEPT
     !.built = @ \cup {"context"},
     !.context = IF in.context_state = NullState
                 THEN DefaultValues(s.robot_model_)
                 ELSE in.context_state]

StepFrames(s, in, loc) ==
  LET goal_frames == transform_poses_to_frames(TheRobotModel, loc.context,
                                               in.ik_poses, s.base_frame_)
  IN [loc EXCEPT
        !.built = @ \cup {"frame_tests"},
        !.goal_frames = goal_frames,
        !.frame_tests = make_frame_tests(goal_frames,
                                         s.params_.position_threshold,
                                         s.params_.rotation_threshold,
                                         s.params_.twist_threshold)]

\* The full vector the active initial guess is taken from.
InitialGuess(s, in, loc) == get_variables(loc.context)

StepGuess(s, in, loc) ==
  LET initial_guess == InitialGuess(s, in, loc)
  IN [loc EXCEPT
        !.built = @ \cup {"initial_guess"},
        !.initial_guess = initial_guess,
        !.active_initial_guess = select(initial_guess,
                                        s.active_variable_indexes_)]

\* A build that also includes a goal of weight 0.
WeightIncludesGoalOrZero(w) == w >= 0

\* The test that includes a built-in goal.
WeightIncludesGoal(w) == w > 0

RECURSIVE IkCostGoals(_, _, _, _)
\* One weight-1 goal per pose, from pose k on.
IkCostGoals(s, in, loc, k) ==
  IF k > Len(in.ik_poses) THEN <<>>
  ELSE <<[fn |-> make_ik_cost_fn(in.ik_poses[k], in.cost_function,
                                 s.robot_model_, s.jmg_, loc.initial_guess),
          weight |-> 1]>> \o IkCostGoals(s, in, loc, k + 1)

\* "Create goals"
MakeGoals(s, in, loc) ==
  LET g0 == <<>>
      g1 == IF WeightIncludesGoal(s.params_.center_joints_weight)
            THEN Append(g0,
                   [fn |-> make_center_joints_cost_fn(
                              s.robot_, s.active_variable_indexes_,
                              s.minimal_displacement_factors_),
                    weight |-> s.params_.center_joints_weight])
            ELSE g0
      g2 == IF WeightIncludesGoal(s.params_.avoid_joint_limits_weight)
            THEN Append(g1,
                   [fn |-> make_avoid_joint_limits_cost_fn(
                              s.robot_, s.active_variable_indexes_,
                              s.minimal_displacement_factors_),
                    weight |-> s.params_.avoid_joint_limits_weight])
            ELSE g1
      g3 == IF WeightIncludesGoal(s.params_.minimal_displacement_weight)
            THEN Append(g2,
                   [fn |-> make_minimal_displacement_cost_fn(
                              loc.active_initial_guess,
                              s.minimal_displacement_factors_),
                    weight |-> s.params_.minimal_displacement_weight])
            ELSE g2
  IN IF in.cost_function THEN Concat(g3, IkCostGoals(s, in, loc, 1)) ELSE g3

StepGoals(s, in, loc) ==
  [loc EXCEPT !.built = @ \cup {"goals"}, !.goals = MakeGoals(s, in, loc)]

StepTest(s, in, loc) ==
  [loc EXCEPT
     !.built = @ \cup {"solution_test"},
     !.solution_test = <<make_is_solution_test_fn(loc.frame_tests, loc.goals,
                                                  s.params_.cost_threshold)>>]

\* The locals of a call that ran to its return statement.
SearchLocals(s, in) ==
  StepTest(s, in,
    StepGoals(s, in,
      StepGuess(s, in,
        StepFrames(s, in,
          StepContext(s, in, NoLocals)))))

\* A build that hands the last candidate back on failure.
SolutionAfterSearchCandidate(in, loc) == loc.initial_guess

\* What the call leaves in the caller's solution vector.
SolutionAfterSearch(in, loc) == in.solution
\* What the call leaves in the caller's error_code.
ErrorCodeAfterSearch(in, loc) == in.error_code
\* The value of the return statement.
SearchReturn(in, loc) == FALSE

\* searchPositionIK(ik_poses, ik_seed_state, timeout, consistency_limits,
\*                  solution, solution_callback, cost_function, error_code,
\*                  options, context_state)
SearchPositionIKCost(s, in) ==
  LET loc == SearchLocals(s, in)
  IN [in |-> in, loc |-> loc,
      solution |-> SolutionAfterSearch(in, loc),
      error_code |-> ErrorCodeAfterSearch(in, loc),
      ret |-> SearchReturn(in, loc)]

\* The multi-pose overload without a cost function: passes IKCostFn().
SearchPositionIKPoses(s, in) ==
  SearchPositionIKCost(s, [in EXCEPT !.cost_function = FALSE])

\* The single-pose overloads: one pose, no context state; the two without a
\* consistency_limits parameter pass an empty vector, the two without a
\* solution_callback parameter pass IKCallbackFn().
SearchPositionIKPose(s, in, has_limits, has_callback) ==
  SearchPositionIKPoses(s,
    [in EXCEPT
       !.consistency_limits = IF has_limits THEN @ ELSE <<>>,
       !.solution_callback = IF has_callback THEN @ ELSE "none",
       !.context_state = NullState])

\* getPositionIK
GetPositionIK(s, in) ==
  [in |-> in, loc |-> NoLocals, solution |-> in.solution,
   error_code |-> in.error_code, ret |-> FALSE]

\* What a caller can pass.
SearchInputs(pose_lists, context_states, cost_functions) ==
  [ik_poses : pose_lists, ik_seed_state : SeedStates,
   consistency_limits : ConsistencyChoices, solution : CallerSolutions,
   solution_callback : {"callback"}, cost_function : cost_functions,
   error_code : CallerErrorCodes, context_state : context_states]

SinglePoseLists == {<<p>> : p \in Poses}

\* ------------------------------------------------------------------ state
\* self:  the GDIKPlugin object (its members and those of KinematicsBase)
\* inits: number of initialize calls made on it
\* last:  the last completed call: its arguments and what it returned
\* thr:   the searchPositionIK calls in progress on separate threads
VARIABLES self, inits, last, thr

vars == <<self, inits, last, thr>>

Threads == {1, 2}
Idle == [pc |-> "idle"]

Init ==
  /\ self \in {FreshPlugin(NullGroup), FreshPlugin(IndeterminateGroup)}
  /\ inits = 0
  /\ last = [op |-> "none"]
  /\ thr = [t \in Threads |-> Idle]

Initialize ==
  /\ inits < MaxInits
  /\ \E node \in Nodes, params \in ParamChoices, group_name \in GroupNames,
        base_frame \in BaseFrames, tip_frames \in TipFrameChoices,
        sd \in Discretizations :
       LET r == InitializeResult(self, node, params, TheRobotModel, group_name,
                                 base_frame, tip_frames, sd)
       IN /\ self' = r.self
          /\ last' = [op |-> "initialize", group_name |-> group_name,
                      base_frame |-> base_frame, tip_frames |-> tip_frames,
                      ret |-> r.ret]
  /\ inits' = inits + 1
  /\ UNCHANGED thr

\* The overload taking ik_poses and a cost function.
SearchCost ==
  /\ \E in \in SearchInputs(PoseLists, ContextStates, BOOLEAN) :
       /\ CanSearch(self, in.context_state)
       /\ last' = [op |-> "searchPositionIK_cost",
                   call |-> SearchPositionIKCost(self, in), given |-> in]
  /\ UNCHANGED <<self, inits, thr>>

\* The overload taking ik_poses and no cost function.
SearchPoses ==
  /\ \E in \in SearchInputs(PoseLists, ContextStates, {FALSE}) :
       /\ CanSearch(self, in.context_state)
       /\ last' = [op |-> "searchPositionIK_poses",
                   call |-> SearchPositionIKPoses(self, in), given |-> in]
  /\ UNCHANGED <<self, inits, thr>>

\* The four overloads taking one ik_pose.
SearchPose ==
  /\ \E in \in SearchInputs(SinglePoseLists, {NullState}, {FALSE}),
        has_limits \in BOOLEAN, has_callback \in BOOLEAN :
       /\ CanSearch(self, NullState)
       /\ last' = [op |-> "searchPositionIK_pose",
                   call |-> SearchPositionIKPose(self, in, has_limits,
                                                 has_callback),
                   given |-> in]
  /\ UNCHANGED <<self, inits, thr>>

CallGetPositionIK ==
  /\ \E in \in SearchInputs(SinglePoseLists, {NullState}, {FALSE}) :
       last' = [op |-> "getPositionIK", call |-> GetPositionIK(self, in),
                given |-> in]
  /\ UNCHANGED <<self, inits, thr>>

Next ==
  \/ Initialize
  \/ SearchCost
  \/ SearchPoses
  \/ SearchPose
  \/ CallGetPositionIK

Spec == Init /\ [][Next]_vars

\* ------------------------------------- concurrent searchPositionIK calls
\* The plugin after one initialize call; no call in progress.
InitConc ==
  /\ \E jmg \in {NullGroup},
        node \in Nodes, params \in ParamChoices, group_name \in GroupNames,
        base_frame \in BaseFrames, tip_frames \in TipFrameChoices,
        sd \in Discretizations :
       LET r == InitializeResult(FreshPlugin(jmg), node, params, TheRobotModel,
                                 group_name, base_frame, tip_frames, sd)
       IN /\ self = r.self
          /\ last = [op |-> "initialize", group_name |-> group_name,
                     base_frame |-> base_frame, tip_frames |-> tip_frames,
                     ret |-> r.ret]
  /\ inits = 1
  /\ thr = [t \in Threads |-> Idle]

\* The arguments the threads call with.
ThreadInputs ==
  {in \in SearchInputs(PoseLists, ContextStates, BOOLEAN) :
     Len(in.ik_seed_state) = NumVariables(TheRobotModel)}

\* Thread t enters searchPositionIK(ik_poses, ..., cost_function, ...).
T_Call(t) ==
  /\ thr[t].pc \in {"idle", "done"}
  /\ \E in \in ThreadInputs :
       /\ CanSearch(self, in.context_state)
       /\ thr' = [thr EXCEPT ![t] = [pc |-> "context", in |-> in,
                                     loc |-> NoLocals]]
  /\ UNCHANGED <<self, inits, last>>

\* Thread t runs the statement `step` of its call and moves on to `next`.
T_Context(t) ==
  /\ thr[t].pc = "context"
  /\ thr' = [thr EXCEPT ![t].loc = StepContext(self, thr[t].in, @),
                        ![t].pc = "frames"]
  /\ UNCHANGED <<self, inits, last>>

T_Frames(t) ==
  /\ thr[t].pc = "frames"
  /\ thr' = [thr EXCEPT ![t].loc = StepFrames(self, thr[t].in, @),
                        ![t].pc = "guess"]
  /\ UNCHANGED <<self, inits, last>>

\* A build in which the initial guess lives in storage shared by the calls.
T_GuessShared(t) ==
  /\ thr[t].pc = "guess"
  /\ thr' = [u \in Threads |->
               IF u = t
               THEN [thr[t] EXCEPT !.loc = StepGuess(self, thr[t].in, @),
                                   !.pc = "goals"]
               ELSE IF thr[u].pc \in {"goals", "test", "return"}
               THEN [thr[u] EXCEPT
                       !.loc.initial_guess =
                          InitialGuess(self, thr[t].in, thr[t].loc)]
               ELSE thr[u]]
  /\ UNCHANGED <<self, inits, last>>

T_Guess(t) ==
  /\ thr[t].pc = "guess"
  /\ thr' = [thr EXCEPT ![t].loc = StepGuess(self, thr[t].in, @),
                        ![t].pc = "goals"]
  /\ UNCHANGED <<self, inits, last>>

T_Goals(t) ==
  /\ thr[t].pc = "goals"
  /\ thr' = [thr EXCEPT ![t].loc = StepGoals(self, thr[t].in, @),
                        ![t].pc = "test"]
  /\ UNCHANGED <<self, inits, last>>

T_Test(t) ==
  /\ thr[t].pc = "test"
  /\ thr' = [thr EXCEPT ![t].loc = StepTest(self, thr[t].in, @),
                        ![t].pc = "return"]
  /\ UNCHANGED <<self, inits, last>>

T_Return(t) ==
  /\ thr[t].pc = "return"
  /\ thr' = [thr EXCEPT
               ![t] = [pc |-> "done", in |-> thr[t].in, loc |-> thr[t].loc,
                       solution |-> SolutionAfterSearch(thr[t].in, thr[t].loc),
                       error_code |-> ErrorCodeAfterSearch(thr[t].in,
                                                           thr[t].loc),
                       ret |-> SearchReturn(thr[t].in, thr[t].loc)]]
  /\ UNCHANGED <<self, inits, last>>

NextConc ==
  \E t \in Threads :
    \/ T_Call(t)
    \/ T_Context(t)
    \/ T_Frames(t)
    \/ T_Guess(t)
    \/ T_Goals(t)
    \/ T_Test(t)
    \/ T_Return(t)

SpecConc == InitConc /\ [][NextConc]_vars

\* ------------------------------------------------------------- properties
SearchOps ==
  {"searchPositionIK_cost", "searchPositionIK_poses", "searchPositionIK_pose"}

IsSearch == last.op \in SearchOps

GroupExists(group_name) ==
  getJointModelGroup(TheRobotModel, group_name) # NullGroup

GoalKinds(goals) == {goals[g].fn.kind : g \in 1..Len(goals)}

GoalsOfKind(goals, kind) == {g \in 1..Len(goals) : goals[g].fn.kind = kind}

\* C1: every call of the overload taking ik_poses and a cost function either
\* returns true with a solution that passes the Solution Test, or returns
\* false with error_code set to a typed failure, never left at the value the
\* caller supplied.
C1_TypedOutcome ==
  last.op = "searchPositionIK_cost" =>
    \/ /\ last.call.ret = TRUE
       /\ Len(last.call.solution) = NumVariables(TheRobotModel)
       /\ SolutionTestAccepts(last.call.loc.solution_test[1], TheRobotModel,
                              self.tip_link_indexes_,
                              self.active_variable_indexes_,
                              last.call.solution)
    \/ /\ last.call.ret = FALSE
       /\ last.call.error_code \in TypedFailures
       /\ last.call.error_code # last.given.error_code

\* The call is Scenario A: an initialized plugin, one target pose, and the
\* Solution Test the call built accepts the seed configuration.
ScenarioA ==
  /\ IsSearch
  /\ self.jmg_ \notin {NullGroup, IndeterminateGroup}
  /\ Len(last.call.in.ik_poses) = 1
  /\ Len(last.given.ik_seed_state) = NumVariables(TheRobotModel)
  /\ SolutionTestAccepts(last.call.loc.solution_test[1], TheRobotModel,
                         self.tip_link_indexes_, self.active_variable_indexes_,
                         last.given.ik_seed_state)

\* C2: in Scenario A searchPositionIK returns true with solution equal to the
\* seed configuration.
C2_ScenarioASucceeds ==
  ScenarioA => /\ last.call.ret = TRUE
               /\ last.call.solution = last.given.ik_seed_state

\* C3: an initialize call naming a group absent from the robot model returns
\* false and leaves every member of the plugin as it was before the call.
C3_NoPartialInitialize ==
  [][(/\ inits' = inits + 1
      /\ last'.op = "initialize"
      /\ ~GroupExists(last'.group_name))
       => (last'.ret = FALSE /\ self' = self)]_vars

\* C4: the goal list handed to the Solution Test holds the center-joints,
\* avoid-joint-limits and minimal-displacement goal exactly when its weight
\* is > 0, at most once, and each carries its configured weight.
C4_ZeroWeightOmission ==
  IsSearch =>
    LET goals == last.call.loc.solution_test[1].goals
        Holds(kind, weight) ==
          /\ (kind \in GoalKinds(goals)) <=> (weight > 0)
          /\ Cardinality(GoalsOfKind(goals, kind)) <= 1
          /\ \A g \in GoalsOfKind(goals, kind) : goals[g].weight = weight
    IN /\ Holds("center_joints", self.params_.center_joints_weight)
       /\ Holds("avoid_joint_limits", self.params_.avoid_joint_limits_weight)
       /\ Holds("minimal_displacement",
                self.params_.minimal_displacement_weight)

\* A search ran with one weight positive, one zero and one negative, and
\* only the goal of the positive weight is in the list.
C4_Witness ==
  /\ IsSearch
  /\ self.params_.center_joints_weight > 0
  /\ self.params_.avoid_joint_limits_weight = 0
  /\ self.params_.minimal_displacement_weight < 0
  /\ GoalKinds(last.call.loc.solution_test[1].goals) \ {"ik_cost"}
       = {"center_joints"}

\* C5: the active initial guess, also the reference of the minimal-
\* displacement goal, is ik_seed_state restricted to
\* active_variable_indexes_, with or without a context_state.
C5_GuessFromSeed ==
  (IsSearch /\ Len(last.given.ik_seed_state) = NumVariables(TheRobotModel)) =>
    LET expected == select(last.given.ik_seed_state,
                           self.active_variable_indexes_)
        goals == last.call.loc.goals
    IN /\ last.call.loc.active_initial_guess = expected
       /\ \A g \in GoalsOfKind(goals, "minimal_displacement") :
            goals[g].fn.reference = expected

\* The call has a configuration error: a seed vector of the wrong length, an
\* empty active-variable index set, or an active index outside the seed.
ConfigurationError ==
  \/ Len(last.given.ik_seed_state) # NumVariables(TheRobotModel)
  \/ self.active_variable_indexes_ = <<>>
  \/ \E k \in 1..Len(self.active_variable_indexes_) :
       self.active_variable_indexes_[k] > Len(last.given.ik_seed_state)

\* C6: a searchPositionIK call with a configuration error returns an
\* invalid-configuration failure before any goal, frame test or solution
\* test is built.
C6_ConfigurationErrorsFailFast ==
  (IsSearch /\ ConfigurationError) =>
    /\ last.call.ret = FALSE
    /\ last.call.error_code \in TypedFailures \ {"TIMED_OUT", "NO_IK_SOLUTION"}
    /\ last.call.loc.built
         \cap {"frame_tests", "goals", "solution_test"} = {}

\* C7: whenever a searchPositionIK overload or getPositionIK returns false,
\* the caller's solution vector is what it was at call entry.
C7_FailureLeavesSolution ==
  (last.op \in SearchOps \cup {"getPositionIK"} /\ last.call.ret = FALSE) =>
    last.call.solution = last.given.solution

\* A search that built its candidate start returned false.
C7_Witness ==
  /\ IsSearch
  /\ last.call.ret = FALSE
  /\ last.call.loc.initial_guess # <<>>
  /\ last.call.loc.initial_guess # last.given.solution

\* What a call with arguments `in` holds in its locals at position pc when
\* it runs alone on plugin s.
AloneLocals(s, in, pc) ==
  LET l0 == NoLocals
      l1 == StepContext(s, in, l0)
      l2 == StepFrames(s, in, l1)
      l3 == StepGuess(s, in, l2)
      l4 == StepGoals(s, in, l3)
      l5 == StepTest(s, in, l4)
  IN CASE pc = "context" -> l0
       [] pc = "frames" -> l1
       [] pc = "guess" -> l2
       [] pc = "goals" -> l3
       [] pc = "test" -> l4
       [] OTHER -> l5

\* Every call in progress holds what it holds when it runs alone.
CallsIndependent ==
  \A t \in Threads :
    thr[t].pc # "idle" =>
      /\ thr[t].loc = AloneLocals(self, thr[t].in, thr[t].pc)
      /\ thr[t].pc = "done" =>
           LET alone == SearchPositionIKCost(self, thr[t].in)
           IN /\ thr[t].ret = alone.ret
              /\ thr[t].solution = alone.solution
              /\ thr[t].error_code = alone.error_code

\* C8: under any interleaving of searchPositionIK calls on separate threads
\* no plugin member changes, and every call's frame tests, goals, initial
\* guess and result are those of the call running alone.
C8_ConcurrentSearchesIndependent ==
  [](CallsIndependent) /\ [][self' = self]_vars

\* Two calls with different context states are both past the initial guess.
C8_Witness ==
  /\ thr[1].pc \in {"goals", "test", "return", "done"}
  /\ thr[2].pc \in {"goals", "test", "return", "done"}
  /\ thr[1].in.context_state # thr[2].in.context_state
  /\ thr[1].loc.initial_guess # thr[2].loc.initial_guess

\* C9: initialize returns true exactly when the named group exists.
C9_InitializeReportsSuccess ==
  last.op = "initialize" => (last.ret = TRUE <=> GroupExists(last.group_name))

\* The joint names the claim expects for a group and a base frame: the
\* group's joints, in group order and each once, that are not the base frame
\* and are neither FIXED nor UNKNOWN.
ExpectedJointNames(group_name, base_frame_) ==
  JointNamesFrom(getJointModels(TheRobotModel, group_name), base_frame_, 1)

\* C10: after the first initialize call, and after every further call that
\* repeats the group and base frame on a plugin whose joint names were the
\* expected ones, getJointNames returns the expected joint names (a repeated
\* call neither lengthens nor duplicates the list) and getLinkNames equals
\* the tip frames.
C10_InitializeIdempotent ==
  [][(/\ inits' = inits + 1
      /\ last'.op = "initialize"
      /\ GroupExists(last'.group_name)
      /\ \/ inits = 0
         \/ /\ last'.group_name = self.group_name_
            /\ removeSlash(last'.base_frame) = self.base_frame_
            /\ self.joint_names_
                 = ExpectedJointNames(self.group_name_, self.base_frame_))
       => (/\ self'.joint_names_
                = ExpectedJointNames(last'.group_name,
                                     removeSlash(last'.base_frame))
           /\ self'.link_names_ = self'.tip_frames_)]_vars
====
